---- MODULE Spec2Model ----
(***************************************************************************)
(* Model of src/hash.py: a brute-force hash reverser.                      *)
(*                                                                         *)
(* main() hashes a password, then searches the keyspace (all strings of    *)
(* length 1..max_len over a charset) for a candidate with the same digest, *)
(* either in one process (single_process_search) or with a process pool    *)
(* whose tasks (worker_task) each own one prefix from make_prefixes.       *)
(*                                                                         *)
(* Strings are sequences of one-character strings.  The digest comparison  *)
(* hashlib.new(alg, cand).digest() == target_bytes is modelled by          *)
(* membership in `preimage`, the set of strings whose digest is the        *)
(* target: it holds the password the target was built from and, when the   *)
(* hash collides, other strings as well.                                   *)
(***************************************************************************)
EXTENDS Naturals, Sequences, FiniteSets

\* ---------------------------------------------------------------- bounds
MaxL == 3
MaxLen == 2
MaxWorkers == 3

\* ------------------------------------------------------ program constants
\* The variant that starts at the length of an empty prefix, as worker_task
\* does with range(len(prefix), max_len + 1).
SingleFromEmptyPrefix == Len(<< >>)

\* single_process_search starts at length 1: range(1, max_len + 1).
SingleFirstLength == 1
\* worker_task flushes when local_tries % 1000 == 0.
FlushEvery == 1000

\* ----------------------------------------------------------------- data
\* string.ascii_lowercase, the 'lower' charset.
Lower ==
  << "a", "b", "c", "d", "e", "f", "g", "h", "i", "j", "k", "l", "m",
     "n", "o", "p", "q", "r", "s", "t", "u", "v", "w", "x", "y", "z" >>

RECURSIVE Pow(_, _)
Pow(b, e) == IF e = 0 THEN 1 ELSE b * Pow(b, e - 1)

\* The position of symbol c in the charset cs (cs has no duplicates).
IndexOf(cs, c) == CHOOSE i \in 1..Len(cs) : cs[i] = c

\* The variant in which the leftmost position advances first.
ProductLeftFirst(cs, n, i) ==
  [ j \in 1..n |-> cs[((i \div Pow(Len(cs), j - 1)) % Len(cs)) + 1] ]

\* itertools.product(cs, repeat=n): its i-th tuple, i counted from 0.  The
\* rightmost position advances first, so the tuples come in lexicographic
\* order of the charset's own order.
ProductAt(cs, n, i) ==
  [ j \in 1..n |-> cs[((i \div Pow(Len(cs), n - j)) % Len(cs)) + 1] ]

\* The number of tuples of itertools.product(cs, repeat=n).
ProductSize(cs, n) == Pow(Len(cs), n)

\* All strings of length n over the charset.
Strings(cs, n) == { ProductAt(cs, n, i) : i \in 0..(ProductSize(cs, n) - 1) }

\* The keyspace: every string of length 1..m over the charset.
Keyspace(cs, m) == UNION { Strings(cs, n) : n \in 1..m }

\* The 0-based position of string s among the strings of its length, in
\* lexicographic order.
RECURSIVE RankOf(_, _)
RankOf(cs, s) ==
  IF s = << >> THEN 0
  ELSE RankOf(cs, SubSeq(s, 1, Len(s) - 1)) * Len(cs)
         + (IndexOf(cs, s[Len(s)]) - 1)

\* Shorter first, then lexicographic in the charset's order.
Before(cs, s, t) ==
  \/ Len(s) < Len(t)
  \/ Len(s) = Len(t) /\ RankOf(cs, s) < RankOf(cs, t)

\* L^1 + ... + L^n.
RECURSIVE PowerSum(_, _)
PowerSum(l, n) == IF n = 0 THEN 0 ELSE Pow(l, n) + PowerSum(l, n - 1)

\* -------------------------------------------------------- make_prefixes
\* The two-letter loop of make_prefixes: for a in charset, for b in
\* charset, append a + b and return as soon as there are `workers` of
\* them; k counts the pairs visited so far.
RECURSIVE TwoLetterPrefixesOver(_, _, _, _)
\* The variant that returns only once it has more than `workers` prefixes.
TwoLetterPrefixesOver(cs, workers, k, acc) ==
  IF k >= Len(cs) * Len(cs) THEN acc
  ELSE LET a == cs[(k \div Len(cs)) + 1]
           b == cs[(k % Len(cs)) + 1]
           acc2 == Append(acc, << a, b >>)
       IN IF Len(acc2) > workers THEN acc2
          ELSE TwoLetterPrefixesOver(cs, workers, k + 1, acc2)

RECURSIVE TwoLetterPrefixes(_, _, _, _)
TwoLetterPrefixes(cs, workers, k, acc) ==
  IF k >= Len(cs) * Len(cs) THEN acc
  ELSE LET a == cs[(k \div Len(cs)) + 1]
           b == cs[(k % Len(cs)) + 1]
           acc2 == Append(acc, << a, b >>)
       IN IF Len(acc2) >= workers THEN acc2
          ELSE TwoLetterPrefixes(cs, workers, k + 1, acc2)

\* The variant that keeps the one-letter prefixes when it goes on to the
\* two-letter ones (no reset of the list before the second loop).
make_prefixes_keep(cs, workers) ==
  IF workers <= 1 THEN << << >> >>
  ELSE IF Len(cs) >= workers
       THEN [ i \in 1..workers |-> << cs[i] >> ]
       ELSE TwoLetterPrefixes(cs, workers, 0, [ i \in 1..Len(cs) |-> << cs[i] >> ])

make_prefixes(cs, workers) ==
  IF workers <= 1 THEN << << >> >>
  ELSE IF Len(cs) >= workers
       THEN [ i \in 1..workers |-> << cs[i] >> ]
       ELSE TwoLetterPrefixes(cs, workers, 0, << >>)

\* ------------------------------------------------------------- the runs
\* A password outside the keyspace: one symbol longer than max_len.
TooLong(cs, m) == [ i \in 1..(m + 1) |-> cs[1] ]

Passwords(cs, m) == Keyspace(cs, m) \cup { TooLong(cs, m) }

\* The sets of strings that can share the target digest: the password
\* alone or, when the hash collides, the password and one more string.
Preimages(cs, m, collide) ==
  { { p } : p \in Passwords(cs, m) }
    \cup (IF collide
          THEN { { p, q } : p \in Passwords(cs, m), q \in Keyspace(cs, m) }
          ELSE {})

RunsOf(cs, m, w, collide) ==
  { [ charset |-> cs, max_len |-> m, workers |-> w, preimage |-> t ] :
      t \in Preimages(cs, m, collide) }

\* Every charset a..., every max_len and every worker count within the
\* bounds; collisions are explored in the runs asked with one worker.
GeneralRuns ==
  UNION { RunsOf(SubSeq(Lower, 1, l), m, w, w = 1) :
            l \in 1..MaxL, m \in 0..MaxLen, w \in 0..MaxWorkers }

\* Eight workers over the two-symbol charset.
EightRuns == RunsOf(SubSeq(Lower, 1, 2), 2, 8, FALSE)

\* --charset lower --max 3 --password zz, one worker; md5("zz") is the
\* digest of no other string of that keyspace.
ZZRun ==
  [ charset |-> Lower, max_len |-> 3, workers |-> 1,
    preimage |-> { << "z", "z" >> } ]

\* Ten symbols, max_len 4, two workers, a password outside the keyspace:
\* each of the units 'a' and 'b' holds 1 + 10 + 100 + 1000 candidates.
BigUnitRun ==
  [ charset |-> SubSeq(Lower, 1, 10), max_len |-> 4, workers |-> 2,
    preimage |-> { TooLong(SubSeq(Lower, 1, 10), 4) } ]

Runs == GeneralRuns \cup EightRuns \cup { ZZRun, BigUnitRun }

VARIABLES
  charset,    \* the resolved charset, a sequence of distinct symbols
  max_len,    \* args.max
  workers,    \* args.workers, then the resolved worker count
  preimage,   \* the strings whose digest equals target_bytes (the password is one)
  pc,         \* main's position: "main", "single", "racing", "done", "crashed"
  length,     \* single_process_search: the current length
  idx,        \* single_process_search: the index of the next tuple of the product
  tries,      \* single_process_search: tries
  tested,     \* single_process_search: the candidates hashed so far, in order
  prefixes,   \* the result of make_prefixes
  wk,         \* per prefix, the state of its worker_task
  counter,    \* counter.value, the shared Manager value
  results,    \* the units whose task has ended, in completion order
  taken,      \* how many results main's imap_unordered loop has consumed
  result      \* what main printed

vars ==
  << charset, max_len, workers, preimage, pc, length, idx, tries,
     tested, prefixes, wk, counter, results, taken, result >>

config == << charset, max_len, preimage >>
singleVars == << length, idx, tries, tested >>
multiVars == << prefixes, wk, counter, results, taken >>

NoResult == [ kind |-> "none", cand |-> << >>, tries |-> 0 ]

\* hashlib.new(alg, cand).digest() == target_bytes
Matches(cand) == cand \in preimage

Init ==
  /\ \E r \in Runs :
       /\ charset = r.charset
       /\ max_len = r.max_len
       /\ workers = r.workers
       /\ preimage = r.preimage
  /\ pc = "main"
  /\ length = 0
  /\ idx = 0
  /\ tries = 0
  /\ tested = << >>
  /\ prefixes = << >>
  /\ wk = << >>
  /\ counter = 0
  /\ results = << >>
  /\ taken = 0
  /\ result = NoResult

\* -------------------------------------------------------------- main
\* What a worker_task holds when its task starts: the outer loop begins at
\* length len(prefix) with local_tries = 0.  st is "running", then
\* "returned" (the task returned a tuple) or "raised" (it ended with an
\* exception); hit says whether it found a match, part how many candidates
\* of the current length it hashed before it stopped there, ntested how
\* many candidates it hashed in all, ret_tries the local_tries it returned.
NewWorker(prefix) ==
  [ st |-> "running", length |-> Len(prefix), local_tries |-> 0,
    hit |-> FALSE, part |-> 0, ntested |-> 0, ret_tries |-> 0 ]

\* main(), from parsing to the choice between the two searches: workers = 0
\* becomes cpu_count(); workers <= 1 calls single_process_search, anything
\* else calls make_prefixes, creates the Manager counter at 0 and hands one
\* task per prefix to the pool.
Main ==
  /\ pc = "main"
  /\ \E n \in (IF workers = 0 THEN 1..MaxWorkers ELSE { workers }) :
       /\ workers' = n
       /\ IF n <= 1
          THEN /\ pc' = "single"
               /\ length' = SingleFirstLength
               /\ idx' = 0
               /\ tries' = 0
               /\ tested' = << >>
               /\ UNCHANGED multiVars
          ELSE /\ pc' = "racing"
               /\ prefixes' = make_prefixes(charset, n)
               /\ wk' = [ u \in 1..Len(make_prefixes(charset, n)) |->
                            NewWorker(make_prefixes(charset, n)[u]) ]
               /\ counter' = 0
               /\ results' = << >>
               /\ taken' = 0
               /\ UNCHANGED singleVars
  /\ UNCHANGED << config, result >>

\* ------------------------------------------------ single_process_search
\* The variant whose outer loop runs one length too far:
\* range(1, max_len + 2).
SingleTestPastMax ==
  /\ pc = "single"
  /\ length <= max_len + 1
  /\ LET s == ProductAt(charset, length, idx)
     IN /\ tries' = tries + 1
        /\ tested' = Append(tested, s)
        /\ IF Matches(s)
           THEN /\ result' = [ kind |-> "found", cand |-> s, tries |-> tries + 1 ]
                /\ pc' = "done"
                /\ UNCHANGED << length, idx >>
           ELSE /\ IF idx + 1 < ProductSize(charset, length)
                   THEN idx' = idx + 1 /\ length' = length
                   ELSE idx' = 0 /\ length' = length + 1
                /\ UNCHANGED << pc, result >>
  /\ UNCHANGED << config, workers, multiVars >>

\* One iteration of the inner loop: build the next candidate of the
\* product, count it, compare its digest; on a match main prints Found
\* with tries.  Otherwise go on to the next tuple, or to the next length
\* when the product is exhausted.
SingleTest ==
  /\ pc = "single"
  /\ length <= max_len
  /\ LET s == ProductAt(charset, length, idx)
     IN /\ tries' = tries + 1
        /\ tested' = Append(tested, s)
        /\ IF Matches(s)
           THEN /\ result' = [ kind |-> "found", cand |-> s, tries |-> tries + 1 ]
                /\ pc' = "done"
                /\ UNCHANGED << length, idx >>
           ELSE /\ IF idx + 1 < ProductSize(charset, length)
                   THEN idx' = idx + 1 /\ length' = length
                   ELSE idx' = 0 /\ length' = length + 1
                /\ UNCHANGED << pc, result >>
  /\ UNCHANGED << config, workers, multiVars >>

\* The loops are over: return (None, tries, elapsed); main prints Not found.
SingleExhausted ==
  /\ pc = "single"
  /\ length > max_len
  /\ result' = [ kind |-> "notfound", cand |-> << >>, tries |-> tries ]
  /\ pc' = "done"
  /\ UNCHANGED << config, workers, singleVars, multiVars >>

\* ---------------------------------------------------------- worker_task
\* counter is Manager().Value('i', 0), a ValueProxy.  A ValueProxy exposes
\* get, set and value only: counter.get_lock() raises AttributeError.
ValueProxyHasGetLock == FALSE

\* The variant of a flush that works and counts the batch twice.
FlushTwice(c, n) == [ ok |-> TRUE, value |-> c + n + n ]

\* with counter.get_lock(): counter.value += n
Flush(c, n) ==
  IF ValueProxyHasGetLock
  THEN [ ok |-> TRUE, value |-> c + n ]
  ELSE [ ok |-> FALSE, value |-> c ]

\* The inner loop of worker_task over one length: the candidates
\* prefix + tuple in product order (the prefix alone when rem = 0), up to
\* and including the first match.  hit: whether one matched; count: how
\* many were hashed.
Scan(prefix, rem) ==
  LET n == ProductSize(charset, rem)
      hits == { i \in 0..(n - 1) : Matches(prefix \o ProductAt(charset, rem, i)) }
  IN IF hits = {}
     THEN [ hit |-> FALSE, count |-> n ]
     ELSE [ hit |-> TRUE,
            count |-> (CHOOSE i \in hits : \A j \in hits : i <= j) + 1 ]

\* One iteration of worker_task's loop over lengths.  The inner loop
\* touches only the task's own variables, so it is one step.  On a match
\* the task flushes local_tries and returns (cand, local_tries, elapsed);
\* after a length without match it flushes when local_tries is a non-zero
\* multiple of 1000.  A flush that raises ends the task with the exception.
WorkerLength(u) ==
  /\ pc = "racing"
  /\ wk[u].st = "running"
  /\ wk[u].length <= max_len
  /\ LET w == wk[u]
         s == Scan(prefixes[u], w.length - Len(prefixes[u]))
         lt == w.local_tries + s.count
         f == Flush(counter, lt)
         seen == [ w EXCEPT !.ntested = w.ntested + s.count ]
     IN IF s.hit
        THEN /\ wk' = [ wk EXCEPT ![u] =
                          [ seen EXCEPT !.st = IF f.ok THEN "returned" ELSE "raised",
                                        !.hit = TRUE,
                                        !.part = s.count,
                                        !.local_tries = lt,
                                        !.ret_tries = IF f.ok THEN lt ELSE 0 ] ]
             /\ counter' = f.value
             /\ results' = Append(results, u)
        ELSE IF lt # 0 /\ lt % FlushEvery = 0
             THEN IF f.ok
                  THEN /\ wk' = [ wk EXCEPT ![u] =
                                    [ seen EXCEPT !.local_tries = 0,
                                                  !.length = w.length + 1 ] ]
                       /\ counter' = f.value
                       /\ UNCHANGED results
                  ELSE /\ wk' = [ wk EXCEPT ![u] =
                                    [ seen EXCEPT !.st = "raised",
                                                  !.local_tries = lt,
                                                  !.length = w.length + 1 ] ]
                       /\ UNCHANGED counter
                       /\ results' = Append(results, u)
             ELSE /\ wk' = [ wk EXCEPT ![u] =
                               [ seen EXCEPT !.local_tries = lt,
                                             !.length = w.length + 1 ] ]
                  /\ UNCHANGED << counter, results >>
  /\ UNCHANGED << config, workers, pc, singleVars, prefixes, taken, result >>

\* After the loop: the last flush when local_tries is not 0, then
\* return (None, 0, elapsed).
WorkerEnd(u) ==
  /\ pc = "racing"
  /\ wk[u].st = "running"
  /\ wk[u].length > max_len
  /\ LET w == wk[u]
         f == Flush(counter, w.local_tries)
     IN IF w.local_tries # 0
        THEN /\ wk' = [ wk EXCEPT ![u].st = IF f.ok THEN "returned" ELSE "raised" ]
             /\ counter' = f.value
        ELSE /\ wk' = [ wk EXCEPT ![u].st = "returned" ]
             /\ UNCHANGED counter
  /\ results' = Append(results, u)
  /\ UNCHANGED << config, workers, pc, singleVars, prefixes, taken, result >>

\* ------------------------------------------- main's imap_unordered loop
\* The next result in completion order.  A task that raised re-raises in
\* main, which leaves the with-block (the pool is terminated) and ends
\* with the traceback: nothing is printed.  A found result prints Found
\* with counter.value and terminates the pool.  Any other result is
\* dropped.
NextResult ==
  /\ pc = "racing"
  /\ taken < Len(results)
  /\ LET u == results[taken + 1]
     IN IF wk[u].st = "raised"
        THEN /\ pc' = "crashed"
             /\ UNCHANGED result
        ELSE IF wk[u].hit
             THEN /\ pc' = "done"
                  /\ result' = [ kind |-> "found",
                                 cand |-> prefixes[u] \o
                                   ProductAt(charset, wk[u].length - Len(prefixes[u]),
                                             wk[u].part - 1),
                                 tries |-> counter ]
             ELSE UNCHANGED << pc, result >>
  /\ taken' = taken + 1
  /\ UNCHANGED << config, workers, singleVars, prefixes, wk, counter, results >>

\* Every task's result was consumed and none was a match: print Not found
\* with counter.value.
Exhausted ==
  /\ pc = "racing"
  /\ taken = Len(prefixes)
  /\ result' = [ kind |-> "notfound", cand |-> << >>, tries |-> counter ]
  /\ pc' = "done"
  /\ UNCHANGED << config, workers, singleVars, multiVars >>

Worker == \E u \in 1..Len(prefixes) : WorkerLength(u) \/ WorkerEnd(u)

Next ==
  \/ Main
  \/ SingleTest
  \/ SingleExhausted
  \/ Worker
  \/ NextResult
  \/ Exhausted

Spec == Init /\ [][Next]_vars

\* ------------------------------------------------------ derived values
Units == 1..Len(prefixes)

\* The candidates worker_task has hashed for unit u: every candidate of the
\* lengths it has finished, and the first `part` ones of the length where
\* it found its match.
UnitTested(u) ==
  LET p == prefixes[u]
      w == wk[u]
      whole == IF w.hit THEN w.length - 1
               ELSE IF w.length - 1 <= max_len THEN w.length - 1 ELSE max_len
  IN UNION { { p \o t : t \in Strings(charset, n - Len(p)) } : n \in Len(p)..whole }
       \cup { p \o ProductAt(charset, w.length - Len(p), i) : i \in 0..(w.part - 1) }

\* The candidates all tasks have hashed together, counted per task.
RECURSIVE SumTested(_)
SumTested(n) == IF n = 0 THEN 0 ELSE wk[n].ntested + SumTested(n - 1)

\* The keyspace of the run, and the candidates of it that match the target.
RunKeyspace == Keyspace(charset, max_len)
RunMatches == preimage \cap RunKeyspace

\* main has returned from the single-process branch, resp. the
\* multi-process search has ended (with a print, or with the traceback).
SingleDone == pc = "done" /\ workers <= 1
MultiEnded == pc \in { "done", "crashed" } /\ workers > 1

\* Every task of the pool has ended, and none found a match.
AllTasksEndedNoHit ==
  /\ pc \in { "racing", "done", "crashed" }
  /\ workers > 1
  /\ \A u \in Units : wk[u].st # "running" /\ ~wk[u].hit

\* ------------------------------------------------------------ the claims

\* C1: the union of the candidate sets tested by the units of
\* make_prefixes is the whole keyspace: once every task has run to its end
\* without a match, every string of length 1..max_len over the charset has
\* been tested by some unit.
C1_UnionIsKeyspace ==
  AllTasksEndedNoHit =>
    RunKeyspace \subseteq UNION { UnitTested(u) : u \in Units }

\* C2: no candidate is tested by two different units: the sets hashed by
\* the tasks of two distinct prefixes are disjoint.
C2_UnitsDisjoint ==
  \A u \in Units : \A v \in Units :
    u # v => UnitTested(u) \cap UnitTested(v) = {}

\* C2's case: two tasks have ended, each having hashed candidates of two
\* lengths.
C2_Witness ==
  \E u \in Units : \E v \in Units :
    /\ u # v
    /\ wk[u].st # "running" /\ wk[v].st # "running"
    /\ wk[u].ntested > 1 /\ wk[v].ntested > 1

\* C3: with 1 worker and with 8 workers the search has the same outcome:
\* when exactly one candidate of the keyspace matches, it is reported as
\* found, and when none matches, not-found is reported.
C3_SameOutcome ==
  ((SingleDone \/ MultiEnded) /\ workers \in { 1, 8 }) =>
    /\ (\E p \in RunMatches : RunMatches = { p })
         => result.kind = "found" /\ RunMatches = { result.cand }
    /\ RunMatches = {} => result.kind = "notfound"

\* C4: when the target is built from a plaintext of the keyspace,
\* single_process_search reports found, and when that plaintext is the
\* only match, tries is L^1 + ... + L^(k-1) plus the plaintext's 1-based
\* rank among the strings of its length k.
C4_FoundWithRank ==
  (SingleDone /\ RunMatches # {}) =>
    /\ result.kind = "found"
    /\ \A p \in RunMatches :
         RunMatches = { p } =>
           result.tries = PowerSum(Len(charset), Len(p) - 1) + RankOf(charset, p) + 1

\* C4's case: a unique plaintext of length 2 that is not the first of its
\* length has been found.
C4_Witness ==
  /\ SingleDone
  /\ result.kind = "found"
  /\ RunMatches = { result.cand }
  /\ Len(result.cand) = 2
  /\ RankOf(charset, result.cand) > 0

\* The run of C5: the 26 lowercase letters, max_len 3, target built from "zz".
ZZDone ==
  /\ SingleDone
  /\ charset = Lower
  /\ max_len = 3
  /\ preimage = { << "z", "z" >> }

\* C5, as stated: that run reports found = "zz" with attempts = 701.
C5_Attempts701 ==
  ZZDone => result = [ kind |-> "found", cand |-> << "z", "z" >>, tries |-> 701 ]

\* C5, amended: that run reports found = "zz" with attempts = 702, the 26
\* strings of length 1 plus the 1-based rank 676 of "zz" among the strings
\* of length 2.
C5_Attempts702 ==
  ZZDone => result = [ kind |-> "found", cand |-> << "z", "z" >>, tries |-> 702 ]

\* C5's case: the run has ended.
C5_Witness == ZZDone /\ result.kind # "none"

\* The run of C7: charset {a, b}, max_len 2, target built from "ab".
ABDone ==
  /\ SingleDone
  /\ charset = << "a", "b" >>
  /\ max_len = 2
  /\ preimage = { << "a", "b" >> }

\* C7: the single-process search tests candidates by increasing length
\* and, within a length, in lexicographic order of the charset, and stops
\* at the first match; for {a, b}, max_len 2 and "ab" it tests "a", "b",
\* "aa", "ab" in that order and returns found = "ab" with tries = 4.
C7_OrderAndFirstMatch ==
  /\ \A i \in 1..(Len(tested) - 1) :
       /\ Before(charset, tested[i], tested[i + 1])
       /\ ~Matches(tested[i])
  /\ tries = Len(tested)
  /\ ABDone =>
       /\ tested = << << "a" >>, << "b" >>, << "a", "a" >>, << "a", "b" >> >>
       /\ result = [ kind |-> "found", cand |-> << "a", "b" >>, tries |-> 4 ]

\* C7's case: the {a, b} run has ended.
C7_Witness == ABDone /\ Len(tested) > 0

\* C8: when several candidates of the keyspace match the target, the
\* single-process search returns the shortest and, among those, the
\* lexicographically smallest; the result is determined by the run's
\* inputs (found exactly when some candidate matches).
C8_SmallestMatch ==
  SingleDone =>
    /\ result.kind = "found" <=> RunMatches # {}
    /\ result.kind = "found" =>
         /\ result.cand \in RunMatches
         /\ \A m \in RunMatches :
              m = result.cand \/ Before(charset, result.cand, m)

\* C8's case: two candidates of the same length collide, and one was
\* returned.
C8_Witness ==
  /\ SingleDone
  /\ result.kind = "found"
  /\ \E m \in RunMatches : m # result.cand /\ Len(m) = Len(result.cand)

\* C10: when no unit matches, the attempts printed with Not found are the
\* counter's final value, and once every task has ended that value is the
\* number of candidates all tasks hashed together.
C10_CounterIsTotal ==
  /\ (pc = "done" /\ workers > 1 /\ result.kind = "notfound")
       => result.tries = counter
  /\ AllTasksEndedNoHit => counter = SumTested(Len(prefixes))

\* The results main has consumed so far came from these units.
Consumed == { results[i] : i \in 1..taken }

\* C11: every search ends with exactly one result, found or not-found,
\* and not-found is produced only after every unit's result was consumed
\* without a match.  Stated on the runs that have ended.
C11_EndsWithOneResult ==
  /\ pc \in { "done", "crashed" } => result.kind \in { "found", "notfound" }
  /\ (workers > 1 /\ result.kind = "notfound") =>
       /\ Consumed = Units
       /\ \A u \in Units : ~wk[u].hit

\* C13: a search asked with max_len < 1 is rejected before it starts: no
\* candidate is hashed and neither Found nor Not found is produced.
C13_RejectsMaxLenBelowOne ==
  max_len < 1 =>
    /\ result.kind = "none"
    /\ tested = << >>
    /\ \A u \in Units : wk[u].ntested = 0

\* C14: when a task has raised and main has taken its result, main
\* either has the unit run again or returns a not-found result (marked
\* incomplete); it does not end without a result.
C14_FailedTaskDegrades ==
  \A u \in Consumed :
    wk[u].st = "raised" =>
      \/ pc = "racing"
      \/ result.kind = "notfound"

\* C15: a task flushes every 1000 candidates: at every point the number
\* of candidates it has hashed and not yet flushed is at most 1000.
C15_UnflushedAtMost1000 ==
  \A u \in Units : wk[u].local_tries <= FlushEvery

\* ----------------------------------- make_prefixes and worker_task alone
\* The partition run as a function of its inputs, for every worker count
\* from 1 on: make_prefixes' units, one worker_task each, and the loop
\* that consumes their results (main itself never calls make_prefixes
\* with workers <= 1).
UnitRuns == { r \in GeneralRuns : r.workers >= 1 }

InitUnits ==
  /\ \E r \in UnitRuns :
       /\ charset = r.charset
       /\ max_len = r.max_len
       /\ workers = r.workers
       /\ preimage = r.preimage
       /\ prefixes = make_prefixes(r.charset, r.workers)
       /\ wk = [ u \in 1..Len(make_prefixes(r.charset, r.workers)) |->
                   NewWorker(make_prefixes(r.charset, r.workers)[u]) ]
  /\ pc = "racing"
  /\ length = 0
  /\ idx = 0
  /\ tries = 0
  /\ tested = << >>
  /\ counter = 0
  /\ results = << >>
  /\ taken = 0
  /\ result = NoResult

NextUnits ==
  \/ Worker
  \/ NextResult
  \/ Exhausted

SpecUnits == InitUnits /\ [][NextUnits]_vars

\* C16: a unit covers the lengths max(1, len(prefix))..max_len: no task
\* hashes the empty string, whatever its prefix, the empty prefix of
\* make_prefixes(charset, 1) included.
C16_NeverEmptyString ==
  \A u \in Units : \A s \in UnitTested(u) :
    /\ Len(s) >= 1
    /\ Len(s) >= Len(prefixes[u])
    /\ Len(s) <= max_len

\* C17: a task that finds a match stops at once (it has hashed nothing
\* after the first matching candidate of its unit) and, before it returns
\* (candidate, local_tries, elapsed), has added its whole unflushed count,
\* the matching candidate included, to the shared counter.
C17_MatchStopsAndFlushes ==
  \A u \in Units :
    wk[u].hit =>
      /\ \A s \in UnitTested(u) :
           Matches(s) =>
             \A t \in UnitTested(u) : t = s \/ Before(charset, t, s)
      /\ wk[u].st = "returned"
      /\ wk[u].ret_tries = wk[u].local_tries
      /\ counter >= wk[u].local_tries

\* The first half of C17 alone: nothing is hashed after the match.
C17_StopsAtMatch ==
  \A u \in Units :
    wk[u].hit =>
      /\ wk[u].st # "running"
      /\ \A s \in UnitTested(u) :
           Matches(s) =>
             \A t \in UnitTested(u) : t = s \/ Before(charset, t, s)

\* C18: make_prefixes' tiers.  With at least `workers` symbols it returns
\* the first `workers` symbols, in charset order, as one-symbol prefixes;
\* with fewer it returns the first min(workers, L * L) two-symbol
\* prefixes in lexicographic order.  The prefixes are pairwise distinct.
C18_TieredPrefixes ==
  pc = "racing" =>
    LET l == Len(charset)
        n == IF l >= workers THEN workers
             ELSE IF workers <= l * l THEN workers ELSE l * l
    IN /\ Len(prefixes) = n
       /\ \A i \in 1..n :
            prefixes[i] = IF l >= workers THEN << charset[i] >>
                          ELSE << charset[((i - 1) \div l) + 1],
                                  charset[((i - 1) % l) + 1] >>
       /\ \A i \in 1..n : \A j \in 1..n : i # j => prefixes[i] # prefixes[j]

\* C18's case: fewer symbols than workers, and the two-symbol prefixes
\* stop at the worker count, before the two-symbol space is exhausted.
C18_Witness ==
  /\ pc = "racing"
  /\ Len(charset) < workers
  /\ Len(prefixes) = workers
  /\ workers < Len(charset) * Len(charset)

\* C19: the shared counter never decreases, and at every moment it is at
\* most the number of candidates the tasks have hashed so far.
C19_CounterMonotoneAndBounded ==
  /\ [](counter <= SumTested(Len(prefixes)))
  /\ [][counter' >= counter]_vars

\* C19's case: two tasks have hashed candidates and have gone through
\* their flush.
C19_Witness ==
  /\ pc = "racing"
  /\ \E u \in Units : \E v \in Units :
       /\ u # v
       /\ wk[u].st # "running" /\ wk[u].ntested > 0
       /\ wk[v].st # "running" /\ wk[v].ntested > 0

\* C20: a candidate reported as found is a string of length 1..max_len
\* over the charset whose digest is the target; Found is never reported
\* for a target that no candidate of the keyspace matches.
C20_FoundIsRealMatch ==
  result.kind = "found" =>
    /\ Len(result.cand) \in 1..max_len
    /\ \A i \in 1..Len(result.cand) :
         \E j \in 1..Len(charset) : result.cand[i] = charset[j]
    /\ result.cand \in preimage
    /\ RunMatches # {}

\* C20's case: a search has reported a candidate of length 2 while another
\* string shares the target's digest.
C20_Witness ==
  /\ pc = "done"
  /\ result.kind = "found"
  /\ Len(result.cand) = 2
  /\ preimage # { result.cand }

====
